---- MODULE Spec2Model ----
(***************************************************************************)
(* A model of run.py (camera-roll-uniformizer): the per-file processing    *)
(* (process_media and what it calls), the lazy enumeration of the sources, *)
(* the collection loop of run() and the writing of the GPX trace.          *)
(*                                                                         *)
(* A path is a record [dir, name, ext] standing for                        *)
(* os.path.join(dir, name + ext); os.path.dirname, os.path.basename and    *)
(* os.path.splitext are its fields.  The file system is a record           *)
(* [files, dirs]: files maps every existing file path to its content, dirs *)
(* is the set of existing directories.  The current directory is the       *)
(* parent of the source tree "in" and of the date folders.                 *)
(*                                                                         *)
(* A point in time is a positive integer; strftime formats it into the     *)
(* strings the code builds, and the GPX timestamp string (fixed width, so  *)
(* ordered as the times are) is kept as the integer itself.                *)
(***************************************************************************)
EXTENDS Integers, Sequences, FiniteSets, TLC

VARIABLES
    fs,         \* the file system: [files |-> path :> content, dirs |-> set]
    fs0,        \* history: the file system at the start
    dry_run,    \* args.dry_run
    sources,    \* args.sources
    gen,        \* the state of the generator process_sources(...)
    future,     \* the future run() is waiting on: [state, path, ret, exc]
    results,    \* the list run() builds from the futures' results
    pc,         \* where run() is: "running", "raised", "write_failed", "done"
    trace_gpx,  \* the file trace.gpx: [written, old, exists, complete, points]
    hist,       \* history: one record per call of try_process_file
    queued,     \* history: the paths submitted to the executor, in order
    rl,         \* relocation sequence: [n, log] of rename_without_overwrite calls
    wk          \* two workers inside rename_without_overwrite: [w -> state]

vars == <<fs, fs0, dry_run, sources, gen, future, results, pc, trace_gpx, hist,
          queued, rl, wk>>

----------------------------------------------------------------------------
(* Bounds of the model *)

\* number of distinct capture times a file may carry
NTimes == 2
\* depth of the chain of sub-directories below the source directory "in"
MaxDepth == 1
\* number of files the source tree holds at the start of a run
MaxFiles == 2
\* number of colliding files relocated one after another
MaxRelocations == 12
\* largest value of a degrees, minutes, seconds or altitude EXIF component
MaxComponent == 1

----------------------------------------------------------------------------
(* Program constants *)

MAX_CONFLICT_SUFFIXING == 10

REMOVE_EXTENSIONS == {".aae"}

\* ('.jpg') is a string, not a tuple: "x in EXIF_IMAGE_EXTENSIONS" is a
\* substring test.  These are the substrings of '.jpg'.
EXIF_IMAGE_EXTENSIONS ==
    {"", ".", ".j", ".jp", ".jpg", "j", "jp", "jpg", "p", "pg", "g"}

VIDEO_IMAGE_EXT == {".mov", ".mp4"}

TRANSFORM_IMAGE_EXTENSIONS == {".jpeg", ".png", ".heic"}

TARGET_IMAGEMAGICK_EXTENSION == ".jpg"

\* the exceptions of run.py that derive from SkipFileError
SkipFileError ==
    {"SkipFileError", "TargetExistsError", "FfmpegError", "ExifError",
     "ExifDateTimeError", "ExifGpsDataError"}

----------------------------------------------------------------------------
(* Values *)

\* the value None where a GpsInfo may stand
None == [none |-> TRUE, timestamp |-> 0, latitude |-> 0, longitude |-> 0,
         altitude |-> 0]

\* latitude and longitude in arc seconds (3600 * the decimal degrees)
GpsInfo(timestamp, latitude, longitude, altitude) ==
    [none |-> FALSE, timestamp |-> timestamp, latitude |-> latitude,
     longitude |-> longitude, altitude |-> altitude]

\* no path: what a call returns for "no file was renamed"
NoPath == [dir |-> "", name |-> "", ext |-> ""]

Path(dir, name, ext) == [dir |-> dir, name |-> name, ext |-> ext]

\* str.lower() on the extensions of the model
lower(extension) ==
    CASE extension = ".JPG" -> ".jpg"
      [] extension = ".PNG" -> ".png"
      [] extension = ".MOV" -> ".mov"
      [] OTHER -> extension

\* datetime.strftime('%Y-%m-%d'): two consecutive times share a day
strftime_date(dt) == "2024-05-0" \o ToString((dt + 1) \div 2)

\* datetime.strftime('%H-%M-%S')
strftime_time(dt) == "10-00-0" \o ToString(dt)

\* datetime.strftime('%Y-%m-%dT%H:%M:%SZ'), kept as the time itself
strftime_gpx(dt) == dt

exists(w, path) == path \in DOMAIN w.files

----------------------------------------------------------------------------
(* File system operations *)

\* os.remove unless dry_run
delete_file(w, path, dry) ==
    IF dry THEN w
    ELSE [w EXCEPT !.files = [q \in (DOMAIN w.files) \ {path} |-> w.files[q]]]

\* os.mkdir unless dry_run; FileExistsError is swallowed
create_directory(w, path, dry) ==
    IF dry \/ path \in w.dirs THEN w
    ELSE [w EXCEPT !.dirs = @ \cup {path}]

\* rename_file without its dry_run guard
rename_file_always(w, src_path, dst_path, dry) ==
    [w EXCEPT !.files =
        [q \in ((DOMAIN w.files) \ {src_path}) \cup {dst_path} |->
            IF q = dst_path THEN w.files[src_path] ELSE w.files[q]]]

\* os.rename unless dry_run: an existing dst_path is replaced
rename_file(w, src_path, dst_path, dry) ==
    IF dry THEN w
    ELSE [w EXCEPT !.files =
            [q \in ((DOMAIN w.files) \ {src_path}) \cup {dst_path} |->
                IF q = dst_path THEN w.files[src_path] ELSE w.files[q]]]

\* find_free_name giving up one candidate early (i >= MAX_CONFLICT_SUFFIXING)
RECURSIVE find_free_name_early(_, _, _, _, _)
find_free_name_early(w, new_name, out_directory, extension, i) ==
    LET new_path == Path(out_directory, new_name, extension)
    IN  IF ~exists(w, new_path)
        THEN [exc |-> "none", new_path |-> new_path]
        ELSE IF i + 1 >= MAX_CONFLICT_SUFFIXING
             THEN [exc |-> "TargetExistsError", new_path |-> new_path]
             ELSE find_free_name_early(w, new_name \o "_", out_directory,
                                       extension, i + 1)

\* the while loop of rename_without_overwrite: the candidate it stops at
RECURSIVE find_free_name(_, _, _, _, _)
find_free_name(w, new_name, out_directory, extension, i) ==
    LET new_path == Path(out_directory, new_name, extension)
    IN  IF ~exists(w, new_path)
        THEN [exc |-> "none", new_path |-> new_path]
        ELSE IF i + 1 > MAX_CONFLICT_SUFFIXING
             THEN [exc |-> "TargetExistsError", new_path |-> new_path]
             ELSE find_free_name(w, new_name \o "_", out_directory, extension,
                                 i + 1)

\* rename_without_overwrite taking its first candidate without looking
rename_without_overwrite_blind(w, path, new_name, out_directory, extension, dry) ==
    LET w1 == create_directory(w, out_directory, dry)
        new_path == Path(out_directory, new_name, extension)
    IN  [w |-> rename_file(w1, path, new_path, dry), exc |-> "none",
         new_path |-> new_path]

rename_without_overwrite(w, path, new_name, out_directory, extension, dry) ==
    LET w1 == create_directory(w, out_directory, dry)
        f  == find_free_name(w1, new_name, out_directory, extension, 0)
    IN  IF f.exc # "none"
        THEN [w |-> w1, exc |-> f.exc, new_path |-> NoPath]
        ELSE [w |-> rename_file(w1, path, f.new_path, dry), exc |-> "none",
              new_path |-> f.new_path]

\* wand_transform_image without its check of the destination
wand_transform_image_unchecked(w, path, new_path, dry) ==
    IF dry
    THEN [w |-> w, exc |-> "none", path |-> path]
    ELSE IF ~w.files[path].decodable
    THEN [w |-> w, exc |-> "WandError", path |-> path]
    ELSE LET saved == [w EXCEPT !.files =
                        [q \in (DOMAIN w.files) \cup {new_path} |->
                            IF q = new_path THEN w.files[path] ELSE w.files[q]]]
         IN  [w |-> delete_file(saved, path, dry), exc |-> "none",
              path |-> new_path]

\* the image re-encoder: fails on a file it cannot decode, before it saves
wand_transform_image(w, path, new_path, dry) ==
    IF exists(w, new_path)
    THEN [w |-> w, exc |-> "TargetExistsError", path |-> path]
    ELSE IF dry
    THEN [w |-> w, exc |-> "none", path |-> path]
    ELSE IF ~w.files[path].decodable
    THEN [w |-> w, exc |-> "WandError", path |-> path]
    ELSE LET saved == [w EXCEPT !.files =
                        [q \in (DOMAIN w.files) \cup {new_path} |->
                            IF q = new_path THEN w.files[path] ELSE w.files[q]]]
         IN  [w |-> delete_file(saved, path, dry), exc |-> "none",
              path |-> new_path]

----------------------------------------------------------------------------
(* Metadata extraction *)

\* image.get(tag): None when the tag is absent
has_tag(image, tag) == tag \notin image.gps.absent

dms(v) == 3600 * v[1] + 60 * v[2] + v[3]

\* exif_build_gps_coordinates applying no sign
exif_build_gps_coordinates_unsigned(image, dt) ==
    LET g == image.gps
    IN  IF \/ g.absent # {}
           \/ g.alt_ref \notin {"ABOVE_SEA_LEVEL", "BELOW_SEA_LEVEL"}
           \/ g.lat_ref \notin {"N", "S"} \/ Len(g.lat) # 3
           \/ g.lon_ref \notin {"E", "W"} \/ Len(g.lon) # 3
        THEN [exc |-> "ExifGpsDataError", ret |-> None]
        ELSE [exc |-> "none",
              ret |-> GpsInfo(strftime_gpx(dt), dms(g.lat), dms(g.lon), g.alt)]

\* the GpsInfo of the EXIF GPS group, or ExifGpsDataError
exif_build_gps_coordinates(image, dt) ==
    LET g == image.gps
    IN  IF ~has_tag(image, "gps_altitude") \/ ~has_tag(image, "gps_altitude_ref")
        THEN [exc |-> "ExifGpsDataError", ret |-> None]
        ELSE IF ~has_tag(image, "gps_latitude") \/ ~has_tag(image, "gps_latitude_ref")
        THEN [exc |-> "ExifGpsDataError", ret |-> None]
        ELSE IF ~has_tag(image, "gps_longitude") \/ ~has_tag(image, "gps_longitude_ref")
        THEN [exc |-> "ExifGpsDataError", ret |-> None]
        ELSE IF g.alt_ref \notin {"ABOVE_SEA_LEVEL", "BELOW_SEA_LEVEL"}
        THEN [exc |-> "ExifGpsDataError", ret |-> None]
        ELSE IF g.lat_ref \notin {"N", "S"} \/ Len(g.lat) # 3
        THEN [exc |-> "ExifGpsDataError", ret |-> None]
        ELSE IF g.lon_ref \notin {"E", "W"} \/ Len(g.lon) # 3
        THEN [exc |-> "ExifGpsDataError", ret |-> None]
        ELSE [exc |-> "none",
              ret |-> GpsInfo(strftime_gpx(dt),
                        dms(g.lat) * (IF g.lat_ref = "S" THEN -1 ELSE 1),
                        dms(g.lon) * (IF g.lon_ref = "W" THEN -1 ELSE 1),
                        g.alt * (IF g.alt_ref = "BELOW_SEA_LEVEL" THEN -1 ELSE 1))]

\* a result of exif_get_information / ffmpeg_get_information
Info(exc, name, date_iso, gps_coord) ==
    [exc |-> exc, name |-> name, date_iso |-> date_iso, gps_coord |-> gps_coord]

\* exif_get_information without its except clause for ExifGpsDataError
exif_get_information_uncaught(w, path) ==
    IF ~exists(w, path) THEN Info("FileNotFoundError", "", "", None)
    ELSE LET image == w.files[path]
         IN  IF ~image.has_exif THEN Info("ExifError", "", "", None)
             ELSE IF image.datetime = 0
             THEN Info("ExifDateTimeError", "", "", None)
             ELSE IF image.datetime < 0 THEN Info("ValueError", "", "", None)
             ELSE LET dt       == image.datetime
                      built    == exif_build_gps_coordinates(image, dt)
                      date_iso == strftime_date(dt)
                      time_iso == strftime_time(dt)
                  IN  IF built.exc # "none" THEN Info(built.exc, "", "", None)
                      ELSE Info("none", date_iso \o "_" \o time_iso \o "_LOCAL",
                                date_iso, built.ret)

\* content.datetime and content.creation_time: 0 is "the tag is absent",
\* a negative value a string strptime rejects, a positive value the time
exif_get_information(w, path) ==
    IF ~exists(w, path) THEN Info("FileNotFoundError", "", "", None)
    ELSE LET image == w.files[path]
         IN  IF ~image.has_exif THEN Info("ExifError", "", "", None)
             ELSE IF image.datetime = 0
             THEN Info("ExifDateTimeError", "", "", None)
             ELSE IF image.datetime < 0 THEN Info("ValueError", "", "", None)
             ELSE LET dt       == image.datetime
                      built    == exif_build_gps_coordinates(image, dt)
                      date_iso == strftime_date(dt)
                      time_iso == strftime_time(dt)
                  IN  Info("none", date_iso \o "_" \o time_iso \o "_LOCAL",
                           date_iso,
                           IF built.exc = "none" THEN built.ret ELSE None)

\* ffmpeg.probe raises when ffprobe is missing or cannot read the file
ffmpeg_get_information(w, path) ==
    IF ~exists(w, path) \/ ~w.files[path].probe_ok
    THEN Info("ProbeError", "", "", None)
    ELSE LET infos == w.files[path]
         IN  IF infos.creation_time = 0 THEN Info("FfmpegError", "", "", None)
             ELSE IF infos.creation_time < 0
             THEN Info("ValueError", "", "", None)
             ELSE LET dt       == infos.creation_time
                      date_iso == strftime_date(dt)
                      time_iso == strftime_time(dt)
                  IN  Info("none", date_iso \o "_" \o time_iso \o "_UTC",
                           date_iso, None)

----------------------------------------------------------------------------
(* Processing of one file *)

\* what a call of process_media did: the file system it leaves, the
\* exception it raised ("none": it returned ret), whether it read the
\* file's metadata, the path the file was renamed to (NoPath: none), and
\* the SkipFileError try_process_file caught ("none": none)
Outcome(w, exc, ret, read, new_path) ==
    [w |-> w, exc |-> exc, ret |-> ret, read |-> read, new_path |-> new_path,
     caught |-> "none"]

\* the two "extract date and time, move and rename" branches
extract_and_rename(w, path, low_extension, dry) ==
    IF low_extension \in EXIF_IMAGE_EXTENSIONS
    THEN LET info == exif_get_information(w, path)
         IN  IF info.exc # "none" THEN Outcome(w, info.exc, None, TRUE, NoPath)
             ELSE LET r == rename_without_overwrite(w, path, info.name,
                               info.date_iso, low_extension, dry)
                  IN  Outcome(r.w, r.exc,
                              IF r.exc = "none" THEN info.gps_coord ELSE None,
                              TRUE, r.new_path)
    ELSE IF low_extension \in VIDEO_IMAGE_EXT
    THEN LET info == ffmpeg_get_information(w, path)
         IN  IF info.exc # "none" THEN Outcome(w, info.exc, None, TRUE, NoPath)
             ELSE LET r == rename_without_overwrite(w, path, info.name,
                               info.date_iso, low_extension, dry)
                  IN  Outcome(r.w, r.exc,
                              IF r.exc = "none" THEN info.gps_coord ELSE None,
                              TRUE, r.new_path)
    ELSE Outcome(w, "none", None, FALSE, NoPath)

process_media(w, path, dry) ==
    LET low_extension == lower(path.ext)
    IN  IF low_extension \in REMOVE_EXTENSIONS
        THEN Outcome(delete_file(w, path, dry), "none", None, FALSE, NoPath)
        ELSE IF low_extension \in TRANSFORM_IMAGE_EXTENSIONS
        THEN LET new_path == Path(path.dir, path.name,
                                  TARGET_IMAGEMAGICK_EXTENSION)
                 t == wand_transform_image(w, path, new_path, dry)
             IN  IF t.exc # "none"
                 THEN Outcome(t.w, t.exc, None, FALSE, NoPath)
                 ELSE extract_and_rename(t.w, t.path, lower(t.path.ext), dry)
        ELSE extract_and_rename(w, path, low_extension, dry)

\* try_process_file without its except clause
try_process_file_uncaught(w, path, dry) == process_media(w, path, dry)

\* SkipFileError is caught and becomes None; anything else propagates
try_process_file(w, path, dry) ==
    LET o == process_media(w, path, dry)
    IN  IF o.exc \in SkipFileError
        THEN [o EXCEPT !.ret = None, !.exc = "none", !.caught = o.exc]
        ELSE o

----------------------------------------------------------------------------
(* Enumeration of the sources: the generator process_sources(...) *)

\* the chain of directories of the source tree: "in", "in/s", "in/s/s", ...
RECURSIVE DirAt(_)
DirAt(d) == IF d = 0 THEN "in" ELSE DirAt(d - 1) \o "/s"

\* os.scandir(top), as os.walk uses it: the sub-directories and the files
scandir_dirs(w, top) ==
    IF \E d \in 0..(MaxDepth - 1) : top = DirAt(d) /\ DirAt(d + 1) \in w.dirs
    THEN <<DirAt((CHOOSE d \in 0..(MaxDepth - 1) : top = DirAt(d)) + 1)>>
    ELSE <<>>

scandir_files(w, top) == {p \in DOMAIN w.files : p.dir = top}

\* a directory given as a source is the path of name "in" in the current
\* directory
isdir(w, source) == source.dir = "" /\ source.ext = "" /\ source.name \in w.dirs

\* a frame of the generator: process_sources at its i-th source, or
\* process_directory with the directories os.walk has still to scan (walk)
\* and what is left of the triple it yielded last (files, dirs)
SourcesFrame(i) == [k |-> "sources", i |-> i, walk |-> <<>>, files |-> {},
                    dirs |-> <<>>]

DirFrame(walk, files, dirs) ==
    [k |-> "directory", i |-> 0, walk |-> walk, files |-> files, dirs |-> dirs]

Push(stack, frame) == Append(stack, frame)
Pop(stack) == SubSeq(stack, 1, Len(stack) - 1)
SetTop(stack, frame) == [stack EXCEPT ![Len(stack)] = frame]

\* what the generator can do when run() asks it for the next future: the
\* set of [end, path, gen], one per file it may yield next (the order of a
\* directory listing is not fixed), or the single [end |-> TRUE] when it
\* is exhausted.  Directory listings are taken when os.walk reaches the
\* directory, not before.
RECURSIVE process_sources(_, _)
process_sources(stack, w) ==
    IF stack = <<>> THEN {[end |-> TRUE, path |-> NoPath, gen |-> <<>>]}
    ELSE LET top == stack[Len(stack)]
         IN  IF top.k = "sources"
             THEN IF top.i > Len(sources) THEN process_sources(Pop(stack), w)
                  ELSE LET source == sources[top.i]
                           rest   == SetTop(stack, SourcesFrame(top.i + 1))
                       IN  \* process_source
                           IF isdir(w, source)
                           THEN process_sources(
                                    Push(rest, DirFrame(<<source.name>>, {}, <<>>)), w)
                           ELSE {[end |-> FALSE, path |-> source, gen |-> rest]}
             \* process_directory
             ELSE IF top.files # {}
             THEN {[end |-> FALSE, path |-> file,
                    gen |-> SetTop(stack, [top EXCEPT !.files = @ \ {file}])] :
                        file \in top.files}
             ELSE IF top.dirs # <<>>
             THEN process_sources(
                      Push(SetTop(stack, [top EXCEPT !.dirs = Tail(@)]),
                           DirFrame(<<Head(top.dirs)>>, {}, <<>>)), w)
             ELSE IF top.walk # <<>>
             THEN \* os.walk yields its next (root, dirs, files)
                  LET root == Head(top.walk)
                      dirs == scandir_dirs(w, root)
                  IN  process_sources(
                          SetTop(stack, DirFrame(dirs \o Tail(top.walk),
                                                 scandir_files(w, root), dirs)), w)
             ELSE process_sources(Pop(stack), w)

----------------------------------------------------------------------------
(* The GPX trace *)

\* sorted leaving the entries in the order given
sorted_as_given(entries) == entries

\* sorted(entries, key=lambda d: d.timestamp): a stable sort
RECURSIVE sorted(_)
sorted(entries) ==
    IF entries = <<>> THEN <<>>
    ELSE LET s == sorted(SubSeq(entries, 1, Len(entries) - 1))
             e == entries[Len(entries)]
             n == Cardinality({j \in 1..Len(s) : s[j].timestamp <= e.timestamp})
         IN  SubSeq(s, 1, n) \o <<e>> \o SubSeq(s, n + 1, Len(s))

\* the file trace.gpx: whether it exists, the <trkpt> elements it holds in
\* the order written, and whether it is a whole document, closed by </gpx>;
\* written: write_gpx_trace has returned in this run; old: the file was
\* there at the start of the run
NoTrace == [written |-> FALSE, old |-> FALSE, exists |-> FALSE,
            complete |-> FALSE, points |-> <<>>]

\* a trace.gpx an earlier run left, holding one track point
OldTrace == [written |-> FALSE, old |-> TRUE, exists |-> TRUE,
             complete |-> TRUE, points |-> <<GpsInfo(1, 0, 0, 0)>>]

\* how open(TRACE_GPX, 'w') and file.write end: both return, open raises
\* OSError, or the write raises OSError (disk full, I/O error)
WriteOutcomes == {"none", "open", "write"}

\* the document is built in memory; open(..., 'w') creates the file or
\* empties the one that is there, then the document is written.  A write
\* that fails leaves the first n track points of the document in the file
write_gpx_trace(trace, entries, fail, n) ==
    LET document == sorted(entries)
    IN  IF fail = "open" THEN [trace |-> trace, exc |-> "OSError"]
        ELSE IF fail = "write"
        THEN [trace |-> [trace EXCEPT !.exists = TRUE, !.complete = FALSE,
                                      !.points = SubSeq(document, 1, n)],
              exc |-> "OSError"]
        ELSE [trace |-> [trace EXCEPT !.written = TRUE, !.exists = TRUE,
                                      !.complete = TRUE, !.points = document],
              exc |-> "none"]

----------------------------------------------------------------------------
(* run() *)

NoFuture == [state |-> "none", path |-> NoPath, ret |-> None, exc |-> "none"]

\* Submit by a run() that pulls the next future without waiting for the
\* result of the one before
SubmitEager ==
    /\ pc = "running"
    /\ future.state \in {"none", "pending"}
    /\ \E y \in process_sources(gen, fs) :
        /\ ~y.end
        /\ gen' = y.gen
        /\ future' = [NoFuture EXCEPT !.state = "pending", !.path = y.path]
        /\ queued' = Append(queued, y.path)
    /\ UNCHANGED <<fs, fs0, dry_run, sources, results, pc, trace_gpx, hist, rl, wk>>

\* the generator yields its next future: queue_file submits the task
Submit ==
    /\ pc = "running"
    /\ future.state = "none"
    /\ \E y \in process_sources(gen, fs) :
        /\ ~y.end
        /\ gen' = y.gen
        /\ future' = [NoFuture EXCEPT !.state = "pending", !.path = y.path]
        /\ queued' = Append(queued, y.path)
    /\ UNCHANGED <<fs, fs0, dry_run, sources, results, pc, trace_gpx, hist, rl, wk>>

\* a worker of the pool runs try_process_file
Work ==
    /\ future.state = "pending"
    /\ LET o == try_process_file(fs, future.path, dry_run)
       IN  /\ fs' = o.w
           /\ future' = [future EXCEPT !.state = "finished", !.ret = o.ret,
                                       !.exc = o.exc]
           /\ hist' = Append(hist,
                        [path |-> future.path, exc |-> o.exc, caught |-> o.caught,
                         ret |-> o.ret, read |-> o.read, new_path |-> o.new_path,
                         before |-> fs, after |-> o.w])
    /\ UNCHANGED <<fs0, dry_run, sources, gen, results, pc, trace_gpx, queued, rl, wk>>

\* future.result() returns: the comprehension keeps what is not None
Result ==
    /\ pc = "running"
    /\ future.state = "finished"
    /\ future.exc = "none"
    /\ results' = IF future.ret.none THEN results ELSE Append(results, future.ret)
    /\ future' = NoFuture
    /\ UNCHANGED <<fs, fs0, dry_run, sources, gen, pc, trace_gpx, hist, queued, rl, wk>>

\* Raise taking the exception for a result of None and going on
RaiseSwallowed ==
    /\ pc = "running"
    /\ future.state = "finished"
    /\ future.exc # "none"
    /\ future' = NoFuture
    /\ UNCHANGED <<fs, fs0, dry_run, sources, gen, results, pc, trace_gpx, hist,
                   queued, rl, wk>>

\* future.result() raises what the task raised: run() is left, nothing
\* more is pulled from the generator and no trace is written
Raise ==
    /\ pc = "running"
    /\ future.state = "finished"
    /\ future.exc # "none"
    /\ pc' = "raised"
    /\ UNCHANGED <<fs, fs0, dry_run, sources, gen, future, results, trace_gpx, hist,
                   queued, rl, wk>>

\* Finish by a run() that writes the trace without waiting for the
\* generator to be exhausted
FinishEarly ==
    /\ pc = "running"
    /\ future.state = "none"
    /\ results' = sorted(results)
    /\ \E fail \in WriteOutcomes, n \in 0..Len(results) :
        LET r == write_gpx_trace(trace_gpx, results', fail, n)
        IN  /\ trace_gpx' = r.trace
            /\ pc' = IF r.exc = "none" THEN "done" ELSE "write_failed"
    /\ gen' = <<>>
    /\ UNCHANGED <<fs, fs0, dry_run, sources, future, hist, queued, rl, wk>>

\* the generator is exhausted: the results are sorted and the trace
\* written; an OSError of write_gpx_trace leaves run() and main()
Finish ==
    /\ pc = "running"
    /\ future.state = "none"
    /\ \E y \in process_sources(gen, fs) : y.end
    /\ results' = sorted(results)
    /\ \E fail \in WriteOutcomes, n \in 0..Len(results) :
        LET r == write_gpx_trace(trace_gpx, results', fail, n)
        IN  /\ trace_gpx' = r.trace
            /\ pc' = IF r.exc = "none" THEN "done" ELSE "write_failed"
    /\ gen' = <<>>
    /\ UNCHANGED <<fs, fs0, dry_run, sources, future, hist, queued, rl, wk>>

----------------------------------------------------------------------------
(* The files a run may find *)

GpsTags == {"gps_latitude", "gps_latitude_ref", "gps_longitude",
            "gps_longitude_ref", "gps_altitude", "gps_altitude_ref"}

\* an EXIF GPS group with its six tags, and one with none of them
GoodGps == [absent |-> {}, lat |-> <<10, 30, 0>>, lat_ref |-> "N",
            lon |-> <<2, 15, 30>>, lon_ref |-> "W", alt |-> 5,
            alt_ref |-> "ABOVE_SEA_LEVEL"]

NoGps == [absent |-> GpsTags, lat |-> <<>>, lat_ref |-> "", lon |-> <<>>,
          lon_ref |-> "", alt |-> 0, alt_ref |-> ""]

Times == 1..NTimes

\* what a file holds: EXIF (has_exif, datetime, gps), what ffmpeg.probe
\* finds (probe_ok, creation_time), whether the re-encoder can decode it
Content(has_exif, datetime, gps, probe_ok, creation_time, decodable) ==
    [id |-> "", has_exif |-> has_exif, datetime |-> datetime, gps |-> gps,
     probe_ok |-> probe_ok, creation_time |-> creation_time,
     decodable |-> decodable]

Photo(datetime, gps) == Content(TRUE, datetime, gps, FALSE, 0, TRUE)
Video(probe_ok, creation_time) ==
    Content(FALSE, 0, NoGps, probe_ok, creation_time, FALSE)
Other == Content(FALSE, 0, NoGps, FALSE, 0, FALSE)

\* the kinds of file of the model: an extension and a content
Kind(ext, content) == [ext |-> ext, content |-> content]

FileKinds ==
    {Kind(".aae", Other), Kind(".txt", Other), Kind("", Photo(1, GoodGps)),
     Kind(".jpg", Other), Kind(".jpg", Photo(0, NoGps)),
     Kind(".jpg", Photo(-1, NoGps)), Kind(".jpg", Photo(1, NoGps)),
     Kind(".PNG", Photo(1, GoodGps)),
     Kind(".png", [Photo(1, GoodGps) EXCEPT !.decodable = FALSE]),
     Kind(".mov", Video(FALSE, 0)), Kind(".mov", Video(TRUE, 0)),
     Kind(".mov", Video(TRUE, 1))}
    \cup {Kind(".jpg", Photo(t, GoodGps)) : t \in Times}

\* the kinds of file the sub-directories hold: one that stays where it
\* is, one that is relocated and one the probe fails on
SubKinds == {Kind(".txt", Other), Kind(".jpg", Photo(1, GoodGps)),
             Kind(".mov", Video(FALSE, 0))}

SourceDirs == {DirAt(d) : d \in 0..MaxDepth}

\* a file of the source tree, all of name "a": its path and its kind
KindsIn(dir) == IF dir = "in" THEN FileKinds ELSE SubKinds

SourceFiles ==
    UNION {{[path |-> Path(dir, "a", k.ext), content |-> k.content] :
                k \in KindsIn(dir)} : dir \in SourceDirs}

\* the identity of a file's content is the path it had at the start
PathString(path) == path.dir \o "/" \o path.name \o path.ext

\* new_name followed by n collision markers
RECURSIVE Suffixed(_, _)
Suffixed(new_name, n) == IF n = 0 THEN new_name ELSE Suffixed(new_name, n - 1) \o "_"

\* the name and date folder of a photo taken at time 1
PhotoName == strftime_date(1) \o "_" \o strftime_time(1) \o "_LOCAL"
PhotoDir == strftime_date(1)

\* files earlier runs left in the date folder: PhotoName with the marker
\* counts of the set marks
Earlier(marks) ==
    {[path |-> Path(PhotoDir, Suffixed(PhotoName, n), ".jpg"),
      content |-> Photo(1, NoGps)] : n \in marks}

\* the file system holding the files of the set fileset, below the
\* directories dirs
MakeFs(fileset, dirs) ==
    [files |-> [p \in {f.path : f \in fileset} |->
                    LET f == CHOOSE f \in fileset : f.path = p
                    IN  [f.content EXCEPT !.id = PathString(p)]],
     dirs |-> dirs]

\* the date folder held 0, 1 or MAX_CONFLICT_SUFFIXING + 1 colliding files
EarlierMarks == {{}, {0}, 0..MAX_CONFLICT_SUFFIXING}

\* the sets of at most n source files, no two at one path
RECURSIVE FileSets(_)
FileSets(n) ==
    IF n = 0 THEN {{}}
    ELSE LET smaller == FileSets(n - 1)
         IN  smaller \cup
             UNION {{s \cup {f} :
                        f \in {g \in SourceFiles : \A h \in s : h.path # g.path}} :
                    s \in smaller}

IdleWorkers == [w \in {1, 2} |-> [pc |-> "idle", path |-> NoPath,
                                  new_name |-> "", i |-> 0, new_path |-> NoPath]]

Init ==
    /\ dry_run \in BOOLEAN
    /\ \E fileset \in FileSets(MaxFiles), marks \in EarlierMarks :
        /\ fs = MakeFs(fileset \cup Earlier(marks),
                       SourceDirs \cup (IF marks = {} THEN {} ELSE {PhotoDir}))
        /\ fs0 = fs
        /\ sources \in {<<Path("", "in", "")>>}
                         \cup {<<f.path>> : f \in {g \in fileset : g.path.dir = "in"}}
    /\ gen = <<SourcesFrame(1)>>
    /\ future = NoFuture
    /\ results = <<>>
    /\ pc = "running"
    /\ trace_gpx \in {NoTrace, OldTrace}
    /\ hist = <<>>
    /\ queued = <<>>
    /\ rl = [n |-> 0, log |-> <<>>, marks |-> {}]
    /\ wk = IdleWorkers

Next == Submit \/ Work \/ Result \/ Raise \/ Finish

Spec == Init /\ [][Next]_vars

----------------------------------------------------------------------------
(* Colliding files relocated one after another: rename_without_overwrite   *)
(* is called for the photos in/f1.jpg, in/f2.jpg, ..., all taken at time 1 *)

RelocSource(n) == Path("in", "f" \o ToString(n), ".jpg")

RelocFiles == {[path |-> RelocSource(n), content |-> Photo(1, NoGps)] :
                   n \in 1..MaxRelocations}

InitReloc ==
    /\ dry_run \in BOOLEAN
    /\ \E marks \in SUBSET (0..MAX_CONFLICT_SUFFIXING) :
        /\ fs = MakeFs(RelocFiles \cup Earlier(marks),
                       {"in"} \cup (IF marks = {} THEN {} ELSE {PhotoDir}))
        /\ rl = [n |-> 0, log |-> <<>>, marks |-> marks]
    /\ fs0 = fs
    /\ sources = <<>>
    /\ gen = <<>>
    /\ future = NoFuture
    /\ results = <<>>
    /\ pc = "relocating"
    /\ trace_gpx = NoTrace
    /\ hist = <<>>
    /\ queued = <<>>
    /\ wk = IdleWorkers

Relocate ==
    /\ pc = "relocating"
    /\ rl.n < MaxRelocations
    /\ LET path == RelocSource(rl.n + 1)
           r == rename_without_overwrite(fs, path, PhotoName, PhotoDir, ".jpg",
                                         dry_run)
       IN  /\ fs' = r.w
           /\ rl' = [rl EXCEPT !.n = @ + 1,
                               !.log = Append(@, [path |-> path, exc |-> r.exc,
                                                  new_path |-> r.new_path,
                                                  before |-> fs, after |-> r.w])]
    /\ UNCHANGED <<fs0, dry_run, sources, gen, future, results, pc, trace_gpx,
                   hist, queued, wk>>

NextReloc == Relocate

SpecReloc == InitReloc /\ [][NextReloc]_vars

----------------------------------------------------------------------------
(* Two workers inside rename_without_overwrite at once, for two photos     *)
(* taken at time 1: each existence check and each rename is one step       *)

Workers == {1, 2}

\* the date folder holds the files k earlier relocations left there
InitRace ==
    /\ dry_run \in BOOLEAN
    /\ \E k \in 0..(MAX_CONFLICT_SUFFIXING + 1) :
        fs = MakeFs({f \in RelocFiles : f.path \in {RelocSource(1), RelocSource(2)}}
                        \cup Earlier(0..(k - 1)),
                    {"in"} \cup (IF k = 0 THEN {} ELSE {PhotoDir}))
    /\ fs0 = fs
    /\ sources = <<>>
    /\ gen = <<>>
    /\ future = NoFuture
    /\ results = <<>>
    /\ pc = "racing"
    /\ trace_gpx = NoTrace
    /\ hist = <<>>
    /\ queued = <<>>
    /\ rl = [n |-> 0, log |-> <<>>, marks |-> {}]
    /\ wk = [w \in Workers |-> [pc |-> "create_directory", path |-> RelocSource(w),
                                new_name |-> PhotoName, i |-> 0,
                                new_path |-> NoPath]]

RaceFrame == <<fs0, dry_run, sources, gen, future, results, pc, trace_gpx,
               hist, queued, rl>>

\* create_directory(out_directory)
RaceCreateDirectory(w) ==
    /\ wk[w].pc = "create_directory"
    /\ fs' = create_directory(fs, PhotoDir, dry_run)
    /\ wk' = [wk EXCEPT ![w].pc = "exists"]
    /\ UNCHANGED RaceFrame

\* one turn of the while loop: the candidate is free, or it gets one more
\* marker, or the loop gives up
RaceExists(w) ==
    /\ wk[w].pc = "exists"
    /\ LET new_path == Path(PhotoDir, wk[w].new_name, ".jpg")
       IN  wk' = [wk EXCEPT ![w] =
                IF ~exists(fs, new_path)
                THEN [@ EXCEPT !.pc = "rename_file", !.new_path = new_path]
                ELSE IF @.i + 1 > MAX_CONFLICT_SUFFIXING
                THEN [@ EXCEPT !.pc = "TargetExistsError", !.i = @ + 1,
                               !.new_name = @ \o "_"]
                ELSE [@ EXCEPT !.i = @ + 1, !.new_name = @ \o "_"]]
    /\ UNCHANGED fs
    /\ UNCHANGED RaceFrame

\* rename_file(path, new_path)
RaceRenameFile(w) ==
    /\ wk[w].pc = "rename_file"
    /\ fs' = rename_file(fs, wk[w].path, wk[w].new_path, dry_run)
    /\ wk' = [wk EXCEPT ![w].pc = "returned"]
    /\ UNCHANGED RaceFrame

NextRace ==
    \E w \in Workers :
        RaceCreateDirectory(w) \/ RaceExists(w) \/ RaceRenameFile(w)

SpecRace == InitRace /\ [][NextRace]_vars

----------------------------------------------------------------------------
(* One media file processed on its own: try_process_file is called for a   *)
(* photo taken at time 1, with any EXIF GPS group of the sets below, or    *)
(* for a video created at any time                                         *)

Components == 0..MaxComponent

\* degrees, minutes, seconds
Triples == {<<d, m, s>> : d \in Components, m \in Components, s \in Components}

\* the GPS groups that hold the six tags, legal references and three
\* components each
ValidGps ==
    {[absent |-> {}, lat |-> lat, lat_ref |-> lat_ref, lon |-> lon,
      lon_ref |-> lon_ref, alt |-> alt, alt_ref |-> alt_ref] :
        lat \in Triples, lat_ref \in {"N", "S"},
        lon \in Triples, lon_ref \in {"E", "W"},
        alt \in Components, alt_ref \in {"ABOVE_SEA_LEVEL", "BELOW_SEA_LEVEL"}}

\* GoodGps with one defect: a tag missing, a reference that is no legal
\* value, a coordinate of two or of four components; and the empty group
InvalidGps ==
    {[GoodGps EXCEPT !.absent = {tag}] : tag \in GpsTags}
        \cup {NoGps,
              [GoodGps EXCEPT !.lat_ref = "X"],
              [GoodGps EXCEPT !.lon_ref = "X"],
              [GoodGps EXCEPT !.alt_ref = "OTHER"],
              [GoodGps EXCEPT !.lat = <<10, 30>>],
              [GoodGps EXCEPT !.lon = <<2, 15, 30, 0>>]}

MediaFiles ==
    {[path |-> Path("in", "a", ".jpg"), content |-> Photo(1, g)] :
        g \in ValidGps \cup InvalidGps \cup {GoodGps}}
    \cup {[path |-> Path("in", "a", ".mov"), content |-> Video(TRUE, t)] :
            t \in Times}

\* the date folder is absent, or holds the file an earlier run put there
InitMedia ==
    /\ dry_run \in BOOLEAN
    /\ \E f \in MediaFiles, marks \in {{}, {0}} :
        fs = MakeFs({f} \cup Earlier(marks),
                    {"in"} \cup (IF marks = {} THEN {} ELSE {PhotoDir}))
    /\ fs0 = fs
    /\ sources = <<>>
    /\ gen = <<>>
    /\ future = NoFuture
    /\ results = <<>>
    /\ pc = "media"
    /\ trace_gpx = NoTrace
    /\ hist = <<>>
    /\ queued = <<>>
    /\ rl = [n |-> 0, log |-> <<>>, marks |-> {}]
    /\ wk = IdleWorkers

\* try_process_file(path) for the file of the directory "in"
Process ==
    /\ pc = "media"
    /\ hist = <<>>
    /\ \E path \in {q \in DOMAIN fs.files : q.dir = "in"} :
        LET o == try_process_file(fs, path, dry_run)
        IN  /\ fs' = o.w
            /\ hist' = Append(hist,
                        [path |-> path, exc |-> o.exc, caught |-> o.caught,
                         ret |-> o.ret, read |-> o.read, new_path |-> o.new_path,
                         before |-> fs, after |-> o.w])
    /\ UNCHANGED <<fs0, dry_run, sources, gen, future, results, pc, trace_gpx,
                   queued, rl, wk>>

NextMedia == Process

SpecMedia == InitMedia /\ [][NextMedia]_vars

----------------------------------------------------------------------------
(* Properties *)

Range(seq) == {seq[k] : k \in 1..Len(seq)}

Count(seq, e) == Cardinality({k \in 1..Len(seq) : seq[k] = e})

\* two sequences hold the same elements, each as many times
SameElements(s, t) ==
    /\ Len(s) = Len(t)
    /\ \A k \in 1..Len(s) : Count(s, s[k]) = Count(t, s[k])

HasFix(h) == ~h.ret.none

\* the fixes the calls of try_process_file returned, in the order returned
Collected ==
    LET withFix == SelectSeq(hist, HasFix)
    IN  [k \in 1..Len(withFix) |-> withFix[k].ret]

NonDecreasing(points) ==
    \A j, k \in 1..Len(points) : j < k => points[j].timestamp <= points[k].timestamp

\* the files the sources name at the start of the run
Enumerated0 ==
    IF isdir(fs0, sources[1])
    THEN {p \in DOMAIN fs0.files : p.dir \in SourceDirs}
    ELSE {sources[1]}

RelocTarget(n) == Path(PhotoDir, Suffixed(PhotoName, n), ".jpg")

\* the k-th relocated file is at PhotoName with n markers, and nowhere else
Landed(k, n) ==
    /\ rl.log[k].exc = "none"
    /\ rl.log[k].new_path = RelocTarget(n)
    /\ RelocTarget(n) \in DOMAIN fs.files
    /\ fs.files[RelocTarget(n)].id = PathString(RelocSource(k))
    /\ RelocSource(k) \notin DOMAIN fs.files

\* the k-th relocation raised TargetExistsError and renamed nothing
Failed(k) ==
    /\ rl.log[k].exc = "TargetExistsError"
    /\ rl.log[k].after.files = rl.log[k].before.files
    /\ RelocSource(k) \in DOMAIN fs.files

\* C1 as claimed: colliding files relocated one after another into an
\* empty date folder: the first lands at the unsuffixed name, the second at
\* the name with one marker, and the eleventh fails with TargetExistsError
\* without being renamed.
C1_EleventhCollidingFileFails ==
    (rl.marks = {} /\ ~dry_run) =>
        /\ Len(rl.log) >= 1 => Landed(1, 0)
        /\ Len(rl.log) >= 2 => Landed(2, 1)
        /\ Len(rl.log) >= MAX_CONFLICT_SUFFIXING + 1 =>
                Failed(MAX_CONFLICT_SUFFIXING + 1)

\* C1 as amended: the k-th colliding file lands at the name with k - 1
\* markers for k up to MAX_CONFLICT_SUFFIXING + 1 (the first at the
\* unsuffixed name, the second at one marker, the eleventh at ten markers);
\* the twelfth and any later one fail with TargetExistsError without being
\* renamed.
C1_TwelfthCollidingFileFails ==
    (rl.marks = {} /\ ~dry_run) =>
        \A k \in 1..Len(rl.log) :
            IF k <= MAX_CONFLICT_SUFFIXING + 1 THEN Landed(k, k - 1) ELSE Failed(k)

C1_Witness ==
    /\ rl.marks = {} /\ ~dry_run
    /\ Len(rl.log) = MAX_CONFLICT_SUFFIXING + 2
    /\ Landed(MAX_CONFLICT_SUFFIXING + 1, MAX_CONFLICT_SUFFIXING)
    /\ Failed(MAX_CONFLICT_SUFFIXING + 2)

\* C2 as claimed: no path is submitted to the executor twice during a run.
C2_NoPathQueuedTwice ==
    \A j, k \in 1..Len(queued) : queued[j] = queued[k] => j = k

\* the exceptions that are neither a SkipFileError nor the probe tool
\* failing
Unexpected == {"ValueError", "WandError", "FileNotFoundError"}

\* C3 as claimed: an exception that is neither a classified skip-file error
\* nor the fatal tool error is treated as skip-file: it does not end the
\* run.
C3_UnexpectedExceptionIsSkipped ==
    pc = "raised" => future.exc \notin Unexpected

\* C4: a classified skip-file error never leaves try_process_file: the
\* file yields None, the run is not ended by it, and a run that ends
\* normally has processed every file the sources named and has written
\* the trace with the fixes of the other files.
C4_SkipFileErrorIsLocal ==
    /\ \A k \in 1..Len(hist) :
        /\ hist[k].exc \notin SkipFileError
        /\ hist[k].caught # "none" => hist[k].ret.none
    /\ pc = "raised" => hist[Len(hist)].caught = "none"
    /\ pc = "done" =>
        /\ Len(hist) = Len(queued)
        /\ Enumerated0 \subseteq Range(queued)
        /\ trace_gpx.written
        /\ SameElements(trace_gpx.points, Collected)

C4_Witness ==
    /\ pc = "done"
    /\ \E j, k \in 1..Len(hist) :
        /\ j < k
        /\ hist[j].caught \in SkipFileError
        /\ ~hist[k].ret.none
        /\ hist[k].ret \in Range(trace_gpx.points)

\* C5: when processing a file raises, that file is the last one submitted
\* and the last one processed, the file system stays as that call left
\* it, and what the files before it had done is in place: a renamed file
\* is at its new path and nowhere else, a removed file is gone.
C5_FatalStopsDispatchWithoutRollback ==
    \A k \in 1..Len(hist) :
        hist[k].exc # "none" =>
            /\ k = Len(hist)
            /\ Len(queued) = k
            /\ fs = hist[k].after
            /\ ~trace_gpx.written
            /\ ~dry_run =>
                \A j \in 1..(k - 1) :
                    LET id == hist[j].before.files[hist[j].path].id
                    IN  /\ hist[j].new_path # NoPath =>
                            /\ hist[j].new_path \in DOMAIN fs.files
                            /\ \A q \in DOMAIN fs.files :
                                    fs.files[q].id = id <=> q = hist[j].new_path
                        /\ lower(hist[j].path.ext) \in REMOVE_EXTENSIONS =>
                            \A q \in DOMAIN fs.files : fs.files[q].id # id

C5_Witness ==
    /\ pc = "raised"
    /\ future.exc = "ProbeError"
    /\ ~dry_run
    /\ Len(hist) >= 2
    /\ hist[1].new_path # NoPath
    /\ \E y \in process_sources(gen, fs) : ~y.end

\* C6: with dry_run set the files and directories stay as they were at the
\* start, whatever the run has done so far.
C6_DryRunLeavesTreeUnchanged == dry_run => fs = fs0

C6_Witness ==
    /\ dry_run
    /\ pc = "done"
    /\ \E j, k \in 1..Len(hist) :
        /\ hist[j].new_path # NoPath
        /\ lower(hist[k].path.ext) \in REMOVE_EXTENSIONS \cup TRANSFORM_IMAGE_EXTENSIONS

\* C7 as claimed: in dry-run a file whose metadata a real run would read
\* has its metadata read, and yields the fix the real run would.
C7_DryRunReadsWhatRealRunReads ==
    dry_run =>
        \A k \in 1..Len(hist) :
            LET real == process_media(hist[k].before, hist[k].path, FALSE)
            IN  real.read => (hist[k].read /\ hist[k].ret = real.ret)

C9_TraceIsSortedPermutation ==
    /\ sorted(<<GpsInfo(3, 0, 0, 0), GpsInfo(1, 0, 0, 0), GpsInfo(2, 0, 0, 0)>>)
          = <<GpsInfo(1, 0, 0, 0), GpsInfo(2, 0, 0, 0), GpsInfo(3, 0, 0, 0)>>
    /\ trace_gpx.written =>
        /\ NonDecreasing(trace_gpx.points)
        /\ SameElements(trace_gpx.points, Collected)

C9_Witness ==
    /\ trace_gpx.written
    /\ Len(Collected) >= 2
    /\ ~NonDecreasing(Collected)

\* the files named by the sources that hold EXIF with a capture time and a
\* valid GPS group
Geotagged0 ==
    {p \in Enumerated0 :
        /\ fs0.files[p].has_exif
        /\ fs0.files[p].datetime > 0
        /\ exif_build_gps_coordinates(fs0.files[p], fs0.files[p].datetime).exc
              = "none"}

\* C10 as claimed, its half "none appears more than once": the trace
\* written at the end of a run holds no more track points than there are
\* files with a valid GPS group.
C10_NoFileHasTwoPoints ==
    pc = "done" => Len(trace_gpx.points) <= Cardinality(Geotagged0)

\* the marker counts of the candidates free in the file system w
FreeMarks(w) ==
    {n \in 0..MAX_CONFLICT_SUFFIXING : RelocTarget(n) \notin DOMAIN w.files}

Least(S) == CHOOSE n \in S : \A m \in S : n <= m

\* a real call moved the file of path to new_path: the content is there,
\* the old path is gone and every other file is as it was
Moved(before, after, path, new_path) ==
    /\ DOMAIN after.files = ((DOMAIN before.files) \ {path}) \cup {new_path}
    /\ after.files[new_path] = before.files[path]
    /\ \A q \in (DOMAIN before.files) \ {path} : after.files[q] = before.files[q]

\* C18: whatever files the date folder holds, a call of
\* rename_without_overwrite stops within MAX_CONFLICT_SUFFIXING + 1
\* existence checks: when one of the candidates with 0..10 markers is free
\* it takes the free one with the fewest markers, a path that did not
\* exist, and a real run moves the source there and changes no other file;
\* when none is free it raises TargetExistsError and no file is changed.
C18_FirstFreeCandidateOrNothing ==
    \A k \in 1..Len(rl.log) :
        LET e == rl.log[k]
            free == FreeMarks(e.before)
        IN  IF free # {}
            THEN /\ e.exc = "none"
                 /\ e.new_path = RelocTarget(Least(free))
                 /\ e.new_path \notin DOMAIN e.before.files
                 /\ IF dry_run THEN e.after = e.before
                    ELSE Moved(e.before, e.after, e.path, e.new_path)
            ELSE /\ e.exc = "TargetExistsError"
                 /\ e.new_path = NoPath
                 /\ e.after.files = e.before.files

\* a candidate with more markers exists while one with fewer is free, and
\* a later call finds every candidate taken
C18_Witness ==
    /\ ~dry_run
    /\ rl.marks = {0, 2} \cup (4..MAX_CONFLICT_SUFFIXING)
    /\ Len(rl.log) = 3
    /\ rl.log[1].new_path = RelocTarget(1)
    /\ rl.log[2].new_path = RelocTarget(3)
    /\ rl.log[3].exc = "TargetExistsError"
    /\ RelocSource(3) \in DOMAIN fs.files

\* C19: at every moment of a run at most one task is submitted and not
\* finished: the tasks finish in the order submitted, and the task of
\* file i + 1 is submitted only when the task of file i has finished and
\* run() has taken its result.
C19_OneTaskInFlight ==
    /\ Len(hist) <= Len(queued)
    /\ Len(queued) <= Len(hist) + 1
    /\ \A k \in 1..Len(hist) : hist[k].path = queued[k]
    /\ Len(queued) = Len(hist) + 1 <=>
            (future.state = "pending" /\ future.path = queued[Len(queued)])

\* the second file is submitted, the first has been processed
C19_Witness ==
    /\ Len(queued) = 2
    /\ Len(hist) = 1
    /\ future.state = "pending"
    /\ queued[1] # queued[2]

\* C15 as claimed: when writing the trace fails, trace.gpx is as it was
\* before the run (absent, or the old document untouched) or it is the
\* whole new document: no partly written file exists.
C15_TraceWriteIsAllOrNothing ==
    pc = "write_failed" =>
        \/ trace_gpx = (IF trace_gpx.old THEN OldTrace ELSE NoTrace)
        \/ /\ trace_gpx.exists
           /\ trace_gpx.complete
           /\ trace_gpx.points = sorted(results)

\* C16: the trace is written by the one step that ends a run no exception
\* ended, and by no other: when that step starts every file the sources
\* named has been submitted and every submitted task has finished, and
\* once run() is over (trace written or not) no step follows, so no file
\* is deleted, converted or renamed after the write has started.
C16_TraceWrittenOnceAfterAllFiles ==
    /\ [](pc = "done" => trace_gpx.written)
    /\ [][/\ pc = "running"
          /\ trace_gpx' # trace_gpx =>
                /\ ~trace_gpx.written
                /\ pc' \in {"done", "write_failed"}
                /\ future.state = "none"
                /\ Len(hist) = Len(queued)
                /\ Enumerated0 \subseteq Range(queued)
                /\ fs' = fs
                /\ hist' = hist]_vars

\* a run that removed one file and renamed another has written its trace
C16_Witness ==
    /\ pc = "done"
    /\ trace_gpx.written
    /\ ~dry_run
    /\ Len(hist) = 2
    /\ fs # fs0
    /\ \E k \in 1..2 : hist[k].new_path # NoPath

\* the extensions the claims name as handled
HandledExtensions ==
    REMOVE_EXTENSIONS \cup TRANSFORM_IMAGE_EXTENSIONS \cup {".jpg"}
        \cup VIDEO_IMAGE_EXT

\* C13 as claimed: a file whose lowercased extension is none of the
\* handled ones, no extension at all included, passes through
\* process_media untouched: its metadata is not read, no file is renamed,
\* deleted or converted, and the call returns None.
C13_UnhandledExtensionPassesThrough ==
    \A k \in 1..Len(hist) :
        lower(hist[k].path.ext) \notin HandledExtensions =>
            /\ ~hist[k].read
            /\ hist[k].new_path = NoPath
            /\ hist[k].after = hist[k].before
            /\ hist[k].exc = "none"
            /\ hist[k].ret.none

\* the paths of the file system w that hold the content id
PathsOf(w, id) == {q \in DOMAIN w.files : w.files[q].id = id}

\* C14: for a file with an extension to normalize: when the path of the
\* same name with '.jpg' exists the call ends with TargetExistsError and
\* no file is changed; when the conversion fails no file is changed; in a
\* real run that converts the file, the original path is gone and the
\* content is at one path only, the '.jpg' path or, once relocated, the
\* path in the date folder.  A dry run changes nothing.
C14_NormalizationKeepsOrReplacesOriginal ==
    \A k \in 1..Len(hist) :
        LET e == hist[k]
            new_path == Path(e.path.dir, e.path.name, TARGET_IMAGEMAGICK_EXTENSION)
            id == e.before.files[e.path].id
        IN  lower(e.path.ext) \in TRANSFORM_IMAGE_EXTENSIONS =>
                IF new_path \in DOMAIN e.before.files
                THEN e.caught = "TargetExistsError" /\ e.after = e.before
                ELSE IF dry_run THEN e.after = e.before
                ELSE IF ~e.before.files[e.path].decodable
                THEN e.exc = "WandError" /\ e.after = e.before
                ELSE /\ e.path \notin DOMAIN e.after.files
                     /\ PathsOf(e.after, id) =
                            {IF e.new_path # NoPath THEN e.new_path ELSE new_path}
                     /\ \A q \in (DOMAIN e.before.files) \ {e.path} :
                            q \in DOMAIN e.after.files
                                /\ e.after.files[q] = e.before.files[q]

\* a real run normalized and relocated one image and failed to convert
\* another
C14_Witness ==
    /\ ~dry_run
    /\ Len(hist) = 2
    /\ lower(hist[1].path.ext) \in TRANSFORM_IMAGE_EXTENSIONS
    /\ hist[1].new_path.dir = PhotoDir
    /\ hist[1].path \notin DOMAIN fs.files
    /\ hist[2].exc = "WandError"
    /\ hist[2].path \in DOMAIN fs.files

\* a GPS group with a tag missing, a reference that is no legal value, or
\* a latitude or longitude that has not exactly three components
Defective(g) ==
    \/ g.absent # {}
    \/ g.lat_ref \notin {"N", "S"}
    \/ g.lon_ref \notin {"E", "W"}
    \/ g.alt_ref \notin {"ABOVE_SEA_LEVEL", "BELOW_SEA_LEVEL"}
    \/ Len(g.lat) # 3
    \/ Len(g.lon) # 3

\* C11: a '.jpg' with EXIF and a capture time whose GPS group is
\* defective yields no GpsInfo (the call returns None), no exception is
\* raised or caught for it, and the file is relocated as the same file
\* with a valid GPS group would be: same new path in the date folder,
\* same directories and same file paths afterwards.
C11_DefectiveGpsStillRelocated ==
    \A k \in 1..Len(hist) :
        LET e == hist[k]
            image == e.before.files[e.path]
            good == process_media(
                        [e.before EXCEPT !.files[e.path].gps = GoodGps],
                        e.path, dry_run)
        IN  (/\ lower(e.path.ext) = ".jpg"
             /\ image.has_exif
             /\ image.datetime > 0
             /\ Defective(image.gps)) =>
                /\ e.ret.none
                /\ e.exc = "none"
                /\ e.caught = "none"
                /\ ~good.ret.none
                /\ e.new_path = good.new_path
                /\ e.new_path.dir = strftime_date(image.datetime)
                /\ e.after.dirs = good.w.dirs
                /\ DOMAIN e.after.files = DOMAIN good.w.files
                /\ ~dry_run =>
                    /\ e.path \notin DOMAIN e.after.files
                    /\ PathsOf(e.after, image.id) = {e.new_path}

\* a photo with one GPS tag missing was moved behind the file an earlier
\* run left in the date folder
C11_Witness ==
    /\ ~dry_run
    /\ Len(hist) = 1
    /\ hist[1].before.files[hist[1].path].gps.absent = {"gps_longitude_ref"}
    /\ hist[1].ret.none
    /\ hist[1].new_path = RelocTarget(1)
    /\ hist[1].new_path \in DOMAIN fs.files
    /\ hist[1].path \notin DOMAIN fs.files

\* C12 as claimed: in a GpsInfo built from a valid GPS group, the
\* latitude of reference 'S', the longitude of reference 'W' and the
\* altitude of reference "below sea level" are negative, those of
\* reference 'N', 'E' and "above sea level" are not.
C12_SouthWestBelowAreNegative ==
    \A k \in 1..Len(hist) :
        LET g == hist[k].before.files[hist[k].path].gps
            ret == hist[k].ret
        IN  ~ret.none =>
                /\ IF g.lat_ref = "S" THEN ret.latitude < 0 ELSE ret.latitude >= 0
                /\ IF g.lon_ref = "W" THEN ret.longitude < 0 ELSE ret.longitude >= 0
                /\ IF g.alt_ref = "BELOW_SEA_LEVEL" THEN ret.altitude < 0
                                                   ELSE ret.altitude >= 0

\* C12 as amended: the latitude of reference 'S', the longitude of
\* reference 'W' and the altitude of reference "below sea level" are
\* never positive, and negative whenever the magnitude read is not zero;
\* those of reference 'N', 'E' and "above sea level" are never negative;
\* the magnitude is the one read.
C12_SignFollowsReference ==
    \A k \in 1..Len(hist) :
        LET g == hist[k].before.files[hist[k].path].gps
            ret == hist[k].ret
        IN  ~ret.none =>
                /\ ret.latitude = IF g.lat_ref = "S" THEN 0 - dms(g.lat) ELSE dms(g.lat)
                /\ ret.longitude = IF g.lon_ref = "W" THEN 0 - dms(g.lon) ELSE dms(g.lon)
                /\ ret.altitude = IF g.alt_ref = "BELOW_SEA_LEVEL" THEN 0 - g.alt ELSE g.alt
                /\ dms(g.lat) >= 0 /\ dms(g.lon) >= 0 /\ g.alt >= 0
                /\ g.lat_ref = "S" => (ret.latitude <= 0 /\ (dms(g.lat) > 0 => ret.latitude < 0))
                /\ g.lon_ref = "W" => (ret.longitude <= 0 /\ (dms(g.lon) > 0 => ret.longitude < 0))
                /\ g.alt_ref = "BELOW_SEA_LEVEL" =>
                        (ret.altitude <= 0 /\ (g.alt > 0 => ret.altitude < 0))
                /\ g.lat_ref = "N" => ret.latitude >= 0
                /\ g.lon_ref = "E" => ret.longitude >= 0
                /\ g.alt_ref = "ABOVE_SEA_LEVEL" => ret.altitude >= 0

\* a fix south of the equator, on the prime meridian with reference 'W',
\* below sea level
C12_Witness ==
    /\ Len(hist) = 1
    /\ ~hist[1].ret.none
    /\ LET g == hist[1].before.files[hist[1].path].gps
       IN  /\ g.lat_ref = "S" /\ hist[1].ret.latitude < 0
           /\ g.lon_ref = "W" /\ g.lon = <<0, 0, 0>> /\ hist[1].ret.longitude = 0
           /\ g.alt_ref = "BELOW_SEA_LEVEL" /\ hist[1].ret.altitude < 0

\* the local time of a UTC time, in a zone one unit of time east of UTC
LocalTime(dt) == dt + 1

\* C17 as claimed: a video that is relocated goes to the folder of the
\* local date of its creation time and gets the name of its local date
\* and time.
C17_VideoGoesToLocalDateFolder ==
    \A k \in 1..Len(hist) :
        LET e == hist[k]
            creation_time == e.before.files[e.path].creation_time
            local == LocalTime(creation_time)
        IN  (lower(e.path.ext) \in VIDEO_IMAGE_EXT /\ e.new_path # NoPath) =>
                /\ e.new_path.dir = strftime_date(local)
                /\ \E suffix \in {"_LOCAL", "_UTC"} :
                        e.new_path.name =
                            strftime_date(local) \o "_" \o strftime_time(local) \o suffix

====
